---- MODULE Spec2Model ----
(***************************************************************************)
(* Model of the Langium type-consistency validator (type-validator.ts)     *)
(* and of the ValidationRegistry (validation-registry.ts).                 *)
(*                                                                         *)
(* JavaScript strings that the code builds by concatenation are modelled   *)
(* as sequences of string tokens: concatenation is \o, and two messages    *)
(* are equal exactly when their token sequences are.  A JavaScript Map is  *)
(* a sequence of [key, value] entries in insertion order.                  *)
(***************************************************************************)
EXTENDS Integers, Sequences, FiniteSets, TLC

VARIABLES
    \* type-validator.ts
    grammar,        \* the grammar under validation (AST resources + type descriptions)
    diagnostics,    \* calls received by the ValidationAcceptor, in order
    resources,      \* result of collectValidationResources
    pcT,            \* "idle" | "validated" | "collected"
    \* checkAlternativesConsistencyHelper applied on its own
    found, expected, errorsInfo, pcA,
    \* ValidationRegistry
    allTypes,           \* reflection.getAllTypes()
    subtypes,           \* reflection.isSubtype as a set of <<subtype, supertype>>
    validationChecks,   \* MultiMap<string, ValidationCheck>
    registered,         \* history: every doRegister call, in order
    \* one invocation of the wrapped checks of a node
    checks,     \* the scripts of the two checks registered for the node's type
    cur,        \* index of the wrapped check the validation loop is at
    wstate,     \* state of the current wrapper: "idle" | "awaiting" | "fulfilled" | "rejected"
    cstate,     \* state of the current check: "idle" | "running" | "suspended" | "returned" | "threw"
    ip,         \* next step of the current check's script
    thrown,     \* what the current check threw
    accepted,   \* calls received by the acceptor during this invocation
    log,        \* console.error lines
    outcome     \* per wrapped check: how its promise settled

typeVars == <<grammar, diagnostics, resources, pcT>>
altVars  == <<found, expected, errorsInfo, pcA>>
regVars  == <<allTypes, subtypes, validationChecks, registered>>
wrapVars == <<checks, cur, wstate, cstate, ip, thrown, accepted, log, outcome>>
vars == <<typeVars, altVars, regVars, wrapVars>>

(***************************************************************************)
(* Bounds of the model                                                     *)
(***************************************************************************)
MaxAlts == 2            \* alternatives listed by one union
MaxRules == 2           \* parser rules returning one type name
MaxSuper == 2           \* supertypes listed by one interface
MaxSteps == 2           \* steps a check takes before it returns or throws
MaxRegistrations == 3   \* doRegister calls in one run of the registry

(***************************************************************************)
(* Generic helpers                                                         *)
(***************************************************************************)
Range(s) == {s[i] : i \in DOMAIN s}

RECURSIVE Flatten(_)
Flatten(ss) == IF Len(ss) = 0 THEN <<>> ELSE Head(ss) \o Flatten(Tail(ss))

\* sequences over S without repetition, of length at most n
RECURSIVE DistinctSeqs(_, _)
DistinctSeqs(S, n) ==
    IF n = 0 THEN {<<>>}
    ELSE LET shorter == DistinctSeqs(S, n - 1)
             pairs == {p \in shorter \X S : Len(p[1]) = n - 1 /\ p[2] \notin Range(p[1])}
         IN shorter \cup {Append(p[1], p[2]) : p \in pairs}

\* JavaScript Map: has / get / set
MapHas(m, k) == \E i \in DOMAIN m : m[i].key = k
MapGet(m, k) == m[CHOOSE i \in DOMAIN m : m[i].key = k].value
MapSet(m, k, v) ==
    IF MapHas(m, k)
    THEN [i \in DOMAIN m |-> IF m[i].key = k THEN [key |-> k, value |-> v] ELSE m[i]]
    ELSE Append(m, [key |-> k, value |-> v])

(***************************************************************************)
(* Type description model (types-util.ts, consumed by type-validator.ts)   *)
(***************************************************************************)
TypeAtoms == <<"A", "B", "C">>      \* type names, in string order
AtomRank(a) == CHOOSE i \in DOMAIN TypeAtoms : TypeAtoms[i] = a

RECURSIVE SortAtoms(_)
SortAtoms(S) ==
    IF S = {} THEN <<>>
    ELSE LET m == CHOOSE x \in S : \A y \in S : AtomRank(x) <= AtomRank(y)
         IN <<m>> \o SortAtoms(S \ {m})

\* distictAndSorted(list): the distinct elements of list, sorted
distictAndSorted(list) == SortAtoms(Range(list))

\* Array.prototype.join(' | ')
RECURSIVE join(_)
join(list) ==
    IF Len(list) = 0 THEN <<>>
    ELSE IF Len(list) = 1 THEN <<list[1]>>
    ELSE <<list[1], " | ">> \o join(Tail(list))

PT(types, array, reference) == [types |-> types, array |-> array, reference |-> reference]

\* a type string that keeps the order in which the alternative lists its types
typeStringUnsorted(e) == join(e.types)

\* the canonical type string under which the helper files an alternative
typeString(e) == join(distictAndSorted(e.types))

(***************************************************************************)
(* arrRefError: the six conditions, in the order the code tests them       *)
(***************************************************************************)
Cond1(f, e) == f.array /\ ~e.array /\ f.reference /\ ~e.reference
Cond2(f, e) == ~f.array /\ e.array /\ ~f.reference /\ e.reference
Cond3(f, e) == f.array /\ ~e.array
Cond4(f, e) == ~f.array /\ e.array
Cond5(f, e) == f.reference /\ ~e.reference
Cond6(f, e) == ~f.reference /\ e.reference

Messages == <<"can't be an array and a reference", "has to be an array and a reference",
              "can't be an array", "has to be an array",
              "can't be a reference", "has to be a reference">>

arrRefErrorSwapped(f, e) ==
    IF Cond3(f, e) THEN Messages[3]
    ELSE IF Cond4(f, e) THEN Messages[4]
    ELSE IF Cond5(f, e) THEN Messages[5]
    ELSE IF Cond6(f, e) THEN Messages[6]
    ELSE IF Cond1(f, e) THEN Messages[1]
    ELSE IF Cond2(f, e) THEN Messages[2]
    ELSE ""

arrRefErrorInverted(f, e) ==
    IF Cond1(f, e) THEN Messages[1]
    ELSE IF Cond2(f, e) THEN Messages[2]
    ELSE IF Cond3(f, e) THEN Messages[4]
    ELSE IF Cond4(f, e) THEN Messages[3]
    ELSE IF Cond5(f, e) THEN Messages[5]
    ELSE IF Cond6(f, e) THEN Messages[6]
    ELSE ""

arrRefError(f, e) ==
    IF Cond1(f, e) THEN Messages[1]
    ELSE IF Cond2(f, e) THEN Messages[2]
    ELSE IF Cond3(f, e) THEN Messages[3]
    ELSE IF Cond4(f, e) THEN Messages[4]
    ELSE IF Cond5(f, e) THEN Messages[5]
    ELSE IF Cond6(f, e) THEN Messages[6]
    ELSE ""

(***************************************************************************)
(* checkAlternativesConsistencyHelper                                      *)
(***************************************************************************)
RECURSIVE stringToPropertyTypeList(_)
stringToPropertyTypeList(propertyTypeList) ==
    IF Len(propertyTypeList) = 0 THEN <<>>
    ELSE LET n == Len(propertyTypeList)
             e == propertyTypeList[n]
         IN MapSet(stringToPropertyTypeList(SubSeq(propertyTypeList, 1, n - 1)), typeString(e), e)

ErrorInfo(ts, msg) == [typeString |-> ts, errorMessage |-> msg]

checkAlternativesConsistencyHelper(fnd, exp) ==
    LET stringToFound == stringToPropertyTypeList(fnd)
        stringToExpected == stringToPropertyTypeList(exp)
        one(entry) ==
            IF ~MapHas(stringToExpected, entry.key)
            THEN <<ErrorInfo(entry.key, "is not expected")>>
            ELSE LET expectedPropertyType == MapGet(stringToExpected, entry.key)
                 IN IF expectedPropertyType.array # entry.value.array
                       \/ expectedPropertyType.reference # entry.value.reference
                    THEN <<ErrorInfo(entry.key, arrRefError(entry.value, expectedPropertyType))>>
                    ELSE <<>>
    IN Flatten([i \in DOMAIN stringToFound |-> one(stringToFound[i])])

(***************************************************************************)
(* Diagnostics and their anchors                                           *)
(***************************************************************************)
\* accept('error', message, { node, property })
Diag(message, node, property) ==
    [severity |-> "error", message |-> message, node |-> node, property |-> property]

\* node?.inferredType ? node.inferredType : node
RuleAnchor(rule) ==
    [kind |-> IF rule.inferredType THEN "InferredType" ELSE "ParserRule",
     rule |-> rule.id, index |-> 0]

AssignmentAnchor(a) == [kind |-> "Assignment", rule |-> a.rule, index |-> a.index]

\* the Type or Interface declaration found by name
DeclarationAnchor(kind, i) == [kind |-> kind, rule |-> 0, index |-> i]

NoNode == [kind |-> "none", rule |-> 0, index |-> 0]

RuleSuffix(typeName) == <<" in a rule that returns type '", typeName, "'.">>

\* applyErrorToRuleNodes(nodes, typeName)(errorMessage)
applyErrorToRuleNodes(nodes, typeName, errorMessage) ==
    [i \in DOMAIN nodes |->
        Diag(errorMessage \o RuleSuffix(typeName), RuleAnchor(nodes[i]), "name")]

\* extractAssignments(node.alternatives): the assignments of a rule body, in order
extractAssignments(rule) ==
    [j \in DOMAIN rule.assignments |->
        [feature |-> rule.assignments[j], rule |-> rule.id, index |-> j]]

assignmentNodes(nodes) == Flatten([i \in DOMAIN nodes |-> extractAssignments(nodes[i])])

applyErrorToAssignmentAlways(nodes, propertyName, errorMessage) ==
    LET an == assignmentNodes(nodes)
    IN IF \E i \in DOMAIN an : an[i].feature = propertyName
       THEN LET i == CHOOSE i \in DOMAIN an :
                        /\ an[i].feature = propertyName
                        /\ \A j \in 1..(i - 1) : an[j].feature # propertyName
            IN <<Diag(errorMessage, AssignmentAnchor(an[i]), "feature")>>
       ELSE [i \in DOMAIN nodes |-> Diag(errorMessage, RuleAnchor(nodes[i]), "feature")]

\* applyErrorToAssignment(nodes, accept)(propertyName, errorMessage)
applyErrorToAssignment(nodes, propertyName, errorMessage) ==
    LET an == assignmentNodes(nodes)
    IN IF \E i \in DOMAIN an : an[i].feature = propertyName
       THEN LET i == CHOOSE i \in DOMAIN an :
                        /\ an[i].feature = propertyName
                        /\ \A j \in 1..(i - 1) : an[j].feature # propertyName
            IN <<Diag(errorMessage, AssignmentAnchor(an[i]), "feature")>>
       ELSE <<>>

(***************************************************************************)
(* Type descriptions                                                       *)
(***************************************************************************)
UnionType(name, union) ==
    [kind |-> "union", name |-> name, union |-> union,
     properties |-> <<>>, superTypes |-> <<>>]
InterfaceType(name, properties, superTypes) ==
    [kind |-> "interface", name |-> name, union |-> <<>>,
     properties |-> properties, superTypes |-> superTypes]
NoType == [kind |-> "none", name |-> "", union |-> <<>>, properties |-> <<>>, superTypes |-> <<>>]

Property(name, typeAlternatives, optional) ==
    [name |-> name, typeAlternatives |-> typeAlternatives, optional |-> optional]

isType(type) == type.kind = "union"
isInterface(type) == type.kind = "interface"

(***************************************************************************)
(* propertyTypeArrayToString (types-util.ts): the sorted, distinct strings *)
(* of the alternatives, joined by ' | '                                    *)
(***************************************************************************)
Tokens == <<" | ", "@", "A", "B", "C", "[]">>
TokenRank(t) == CHOOSE i \in DOMAIN Tokens : Tokens[i] = t

RECURSIVE StringLess(_, _)
StringLess(s, t) ==
    IF Len(t) = 0 THEN FALSE
    ELSE IF Len(s) = 0 THEN TRUE
    ELSE IF Head(s) # Head(t) THEN TokenRank(Head(s)) < TokenRank(Head(t))
    ELSE StringLess(Tail(s), Tail(t))

RECURSIVE SortStrings(_)
SortStrings(S) ==
    IF S = {} THEN <<>>
    ELSE LET m == CHOOSE x \in S : \A y \in S \ {x} : StringLess(x, y)
         IN <<m>> \o SortStrings(S \ {m})

typePropertyToString(e) ==
    (IF e.reference THEN <<"@">> ELSE <<>>) \o typeString(e) \o (IF e.array THEN <<"[]">> ELSE <<>>)

RECURSIVE joinStrings(_)
joinStrings(list) ==
    IF Len(list) = 0 THEN <<>>
    ELSE IF Len(list) = 1 THEN list[1]
    ELSE list[1] \o <<" | ">> \o joinStrings(Tail(list))

propertyTypeArrayToString(alternatives) ==
    joinStrings(SortStrings({typePropertyToString(alternatives[i]) : i \in DOMAIN alternatives}))

(***************************************************************************)
(* checkAlternativesConsistency                                            *)
(***************************************************************************)
checkAlternativesConsistency(inferred, declared, nodes, typeName) ==
    LET errors == checkAlternativesConsistencyHelper(inferred, declared)
    IN Flatten([i \in DOMAIN errors |->
            applyErrorToRuleNodes(nodes, typeName,
                <<"A type '">> \o errors[i].typeString \o <<"' ", errors[i].errorMessage>>)])

(***************************************************************************)
(* checkPropertiesConsistency                                              *)
(***************************************************************************)
baseError(propertyName, foundType, expectedType) ==
    <<"The assigned type '">> \o foundType
        \o <<"' is not compatible with the declared property '", propertyName, "' of type '">>
        \o expectedType \o <<"'.">>

checkOptional(fnd, exp) ==
    ~(  (Len(fnd.typeAlternatives) = 1 /\ fnd.typeAlternatives[1].array)
     \/ (Len(exp.typeAlternatives) = 1 /\ exp.typeAlternatives[1].array))

\* resultError.replace(/;$/, '.')
replaceFinalSemicolon(msg) ==
    IF Len(msg) > 0 /\ msg[Len(msg)] = ";"
    THEN [msg EXCEPT ![Len(msg)] = "."]
    ELSE msg

NotExpectedMessage(name) == <<"A property '", name, "' is not expected.">>
ExpectedMessage(name) == <<"A property '", name, "' is expected">>
CantBeOptionalMessage(name) == <<"A property '", name, "' can't be optional.">>

FindByName(props, name) ==
    props[CHOOSE i \in DOMAIN props :
            /\ props[i].name = name
            /\ \A j \in 1..(i - 1) : props[j].name # name]

\* lines 178-201: one inferred property against the declared ones
checkFoundProperty(foundProperty, declared, nodes) ==
    IF \E i \in DOMAIN declared : declared[i].name = foundProperty.name
    THEN LET expectedProperty == FindByName(declared, foundProperty.name)
             foundStringType == propertyTypeArrayToString(foundProperty.typeAlternatives)
             expectedStringType == propertyTypeArrayToString(expectedProperty.typeAlternatives)
             typeAlternativesErrors ==
                 checkAlternativesConsistencyHelper(foundProperty.typeAlternatives,
                                                    expectedProperty.typeAlternatives)
             clauses == Flatten([i \in DOMAIN typeAlternativesErrors |->
                            <<" '">> \o typeAlternativesErrors[i].typeString
                                \o <<"' ", typeAlternativesErrors[i].errorMessage, ";">>])
             resultError == replaceFinalSemicolon(
                 baseError(foundProperty.name, foundStringType, expectedStringType) \o clauses)
         IN (IF foundStringType # expectedStringType /\ Len(typeAlternativesErrors) > 0
             THEN applyErrorToAssignment(nodes, foundProperty.name, resultError)
             ELSE <<>>)
            \o
            (IF checkOptional(foundProperty, expectedProperty)
                /\ ~expectedProperty.optional /\ foundProperty.optional
             THEN applyErrorToAssignment(nodes, foundProperty.name,
                                         CantBeOptionalMessage(foundProperty.name))
             ELSE <<>>)
    ELSE applyErrorToAssignment(nodes, foundProperty.name, NotExpectedMessage(foundProperty.name))

\* lines 204-209: the declared properties that no inferred property matches
checkLackingProperties(inferred, declared, nodes, typeName) ==
    Flatten([i \in DOMAIN declared |->
        IF \E j \in DOMAIN inferred : inferred[j].name = declared[i].name
        THEN <<>>
        ELSE applyErrorToRuleNodes(nodes, typeName, ExpectedMessage(declared[i].name))])

checkPropertiesConsistency(inferred, declared, nodes, typeName) ==
    Flatten([i \in DOMAIN inferred |-> checkFoundProperty(inferred[i], declared, nodes)])
        \o checkLackingProperties(inferred, declared, nodes, typeName)

(***************************************************************************)
(* checkSuperTypesConsistency                                              *)
(***************************************************************************)
superTypeError(superType, isExtra) ==
    <<"A super type '", superType, "' is ", IF isExtra THEN "not " ELSE "", "expected">>

checkSuperTypesConsistencyExtraOnly(inferred, declared, nodes, typeName) ==
    Flatten([i \in DOMAIN inferred |->
        IF inferred[i] \in Range(declared) THEN <<>>
        ELSE applyErrorToRuleNodes(nodes, typeName, superTypeError(inferred[i], TRUE))])

checkSuperTypesConsistency(inferred, declared, nodes, typeName) ==
    Flatten([i \in DOMAIN inferred |->
        IF inferred[i] \in Range(declared) THEN <<>>
        ELSE applyErrorToRuleNodes(nodes, typeName, superTypeError(inferred[i], TRUE))])
    \o
    Flatten([i \in DOMAIN declared |->
        IF declared[i] \in Range(inferred) THEN <<>>
        ELSE applyErrorToRuleNodes(nodes, typeName, superTypeError(declared[i], FALSE))])

(***************************************************************************)
(* collectValidationResources                                              *)
(***************************************************************************)
\* getTypeNameToRules(astResources).get(typeName)
typeNameToRules(g, typeName) ==
    SelectSeq(g.parserRules \o g.datatypeRules, LAMBDA rule : rule.type = typeName)

mergeTypesAndInterfaces(astTypes) == astTypes.interfaces \o astTypes.unions

\* one record of the map; hasInferred / hasDeclared say which keys it carries
Info(hasInferred, inferred, nodes, hasDeclared, declared, node) ==
    [hasInferred |-> hasInferred, inferred |-> inferred, nodes |-> nodes,
     hasDeclared |-> hasDeclared, declared |-> declared, node |-> node]

isInferredAndDeclared(type) == type.hasInferred /\ type.hasDeclared

RECURSIVE inferredInfo(_, _)
inferredInfo(g, types) ==
    IF Len(types) = 0 THEN <<>>
    ELSE LET n == Len(types)
             type == types[n]
         IN MapSet(inferredInfo(g, SubSeq(types, 1, n - 1)), type.name,
                   Info(TRUE, type, typeNameToRules(g, type.name), FALSE, NoType, NoNode))

\* stream(types).find(...) ?? stream(interfaces).find(...)
HasDeclarationNode(g, name) == name \in Range(g.types) \/ name \in Range(g.interfaces)
FirstIndex(s, x) == CHOOSE i \in DOMAIN s : s[i] = x /\ \A j \in 1..(i - 1) : s[j] # x
DeclarationNode(g, name) ==
    IF name \in Range(g.types) THEN DeclarationAnchor("Type", FirstIndex(g.types, name))
    ELSE DeclarationAnchor("Interface", FirstIndex(g.interfaces, name))

RECURSIVE allTypesInfo(_, _, _)
allTypesInfo(g, infMap, types) ==
    IF Len(types) = 0 THEN <<>>
    ELSE LET n == Len(types)
             type == types[n]
             acc == allTypesInfo(g, infMap, SubSeq(types, 1, n - 1))
         IN IF HasDeclarationNode(g, type.name)
            THEN LET node == DeclarationNode(g, type.name)
                 IN MapSet(acc, type.name,
                       IF MapHas(infMap, type.name)
                       THEN LET inferred == MapGet(infMap, type.name)
                            IN Info(TRUE, inferred.inferred, inferred.nodes, TRUE, type, node)
                       ELSE Info(FALSE, NoType, <<>>, TRUE, type, node))
            ELSE acc

collectValidationResources(g) ==
    allTypesInfo(g, inferredInfo(g, mergeTypesAndInterfaces(g.inferred)),
                 mergeTypesAndInterfaces(g.declared))

(***************************************************************************)
(* validateTypesConsistency                                                *)
(***************************************************************************)
specificError(typeName) ==
    <<"Inferred and declared versions of type ", typeName, " have to be types or interfaces both.">>

kindMismatchRulesOnly(typeName, typeInfo) ==
    [i \in DOMAIN typeInfo.nodes |->
        Diag(specificError(typeName), RuleAnchor(typeInfo.nodes[i]), "name")]

\* lines 38-46
kindMismatch(typeName, typeInfo) ==
    [i \in DOMAIN typeInfo.nodes |->
        Diag(specificError(typeName), RuleAnchor(typeInfo.nodes[i]), "name")]
    \o <<Diag(specificError(typeName), typeInfo.node, "name")>>

\* lines 29-46: the body of the loop over the map's entries
validateEntry(typeName, typeInfo) ==
    IF ~isInferredAndDeclared(typeInfo) THEN <<>>
    ELSE IF isType(typeInfo.inferred) /\ isType(typeInfo.declared)
    THEN checkAlternativesConsistency(typeInfo.inferred.union, typeInfo.declared.union,
                                      typeInfo.nodes, typeName)
    ELSE IF isInterface(typeInfo.inferred) /\ isInterface(typeInfo.declared)
    THEN checkPropertiesConsistency(typeInfo.inferred.properties, typeInfo.declared.properties,
                                    typeInfo.nodes, typeName)
         \o checkSuperTypesConsistency(typeInfo.inferred.superTypes, typeInfo.declared.superTypes,
                                       typeInfo.nodes, typeName)
    ELSE kindMismatch(typeName, typeInfo)

validateTypesConsistency(g) ==
    LET validationResources == collectValidationResources(g)
    IN Flatten([i \in DOMAIN validationResources |->
            validateEntry(validationResources[i].key, validationResources[i].value)])


(***************************************************************************)
(* Inputs: grammars, drawn from bounded families                           *)
(***************************************************************************)
Rule(id, type, assignments, inferredType) ==
    [id |-> id, type |-> type, assignments |-> assignments, inferredType |-> inferredType]

\* the rule lists of at most n rules returning `type`, bodies drawn from kinds;
\* a rule's id is base + its position
RuleLists(type, kinds, n, base) ==
    UNION {{[i \in 1..k |-> Rule(base + i, type, f[i].assignments, f[i].inferredType)] :
                f \in [1..k -> kinds]} : k \in 0..n}

Grammar(inferred, declared, types, interfaces, parserRules, datatypeRules) ==
    [inferred |-> inferred, declared |-> declared, types |-> types,
     interfaces |-> interfaces, parserRules |-> parserRules, datatypeRules |-> datatypeRules]

AstTypes(interfaces, unions) == [interfaces |-> interfaces, unions |-> unions]

PlainRules == {[assignments |-> <<>>, inferredType |-> b] : b \in BOOLEAN}

\* unions of X on both sides
UnionAlternatives ==
    {PT(<<"A">>, FALSE, FALSE), PT(<<"A">>, TRUE, FALSE), PT(<<"A">>, FALSE, TRUE),
     PT(<<"A", "B">>, FALSE, FALSE), PT(<<"B", "A">>, FALSE, FALSE)}

UnionGrammars ==
    {Grammar(AstTypes(<<>>, <<UnionType("X", f)>>), AstTypes(<<>>, <<UnionType("X", e)>>),
             <<"X">>, <<>>, r, <<>>) :
        f \in DistinctSeqs(UnionAlternatives, MaxAlts),
        e \in DistinctSeqs(UnionAlternatives, MaxAlts),
        r \in RuleLists("X", PlainRules, MaxRules, 0)}

\* interfaces of X on both sides, differing in their properties
PropertyNames == {"p", "q"}
PropertyAlternatives ==
    {<<PT(<<"A">>, FALSE, FALSE)>>, <<PT(<<"A">>, TRUE, FALSE)>>,
     <<PT(<<"A">>, TRUE, FALSE), PT(<<"B">>, FALSE, FALSE)>>}
Properties ==
    {Property(n, a, o) : n \in PropertyNames, a \in PropertyAlternatives, o \in BOOLEAN}
PropertyLists ==
    {l \in DistinctSeqs(Properties, Cardinality(PropertyNames)) :
        \A i, j \in DOMAIN l : i # j => l[i].name # l[j].name}
AssigningRules ==
    {[assignments |-> a, inferredType |-> FALSE] : a \in {<<"q">>, <<"q", "p", "p">>}}

PropertyGrammars ==
    {Grammar(AstTypes(<<InterfaceType("X", f, <<>>)>>, <<>>),
             AstTypes(<<InterfaceType("X", e, <<>>)>>, <<>>),
             <<>>, <<"X">>, r, <<>>) :
        f \in PropertyLists, e \in PropertyLists,
        r \in RuleLists("X", AssigningRules, MaxRules, 0)}

\* interfaces of X on both sides, differing in their supertypes
SuperTypeNames == {"A", "B", "C"}
SamePropertyRules == {[assignments |-> <<"p">>, inferredType |-> b] : b \in BOOLEAN}
SameProperties == <<Property("p", <<PT(<<"A">>, FALSE, FALSE)>>, FALSE)>>

SuperTypeGrammars ==
    {Grammar(AstTypes(<<InterfaceType("X", SameProperties, f)>>, <<>>),
             AstTypes(<<InterfaceType("X", SameProperties, e)>>, <<>>),
             <<>>, <<"X">>, r, <<>>) :
        f \in DistinctSeqs(SuperTypeNames, MaxSuper),
        e \in DistinctSeqs(SuperTypeNames, MaxSuper),
        r \in RuleLists("X", SamePropertyRules, MaxRules, 0)}

\* two type names X and Y, each inferred and/or declared as a union or an interface
Kinds == {"none", "union", "interface"}
InferredAs(name, kind) ==
    IF kind = "union" THEN UnionType(name, <<PT(<<"A">>, FALSE, FALSE)>>)
    ELSE InterfaceType(name, <<Property("p", <<PT(<<"A">>, FALSE, FALSE)>>, FALSE)>>, <<"C">>)
DeclaredAs(name, kind) ==
    IF kind = "union" THEN UnionType(name, <<PT(<<"B">>, FALSE, FALSE)>>)
    ELSE InterfaceType(name, <<Property("p", <<PT(<<"A">>, FALSE, FALSE)>>, FALSE),
                               Property("q", <<PT(<<"A">>, FALSE, FALSE)>>, FALSE)>>, <<>>)

\* c: [ix, iy, dx, dy: kind; nx, ny: declaration node present; rx, ry: rules; dt: datatype rules]
KindGrammar(c) ==
    LET names == <<"X", "Y">>
        inf == <<c.ix, c.iy>>
        dec == <<c.dx, c.dy>>
        node == <<c.nx, c.ny>>
        pick(kinds, kind, make(_, _)) ==
            Flatten([i \in 1..2 |-> IF kinds[i] = kind THEN <<make(names[i], kind)>> ELSE <<>>])
        nodes(kind) ==
            Flatten([i \in 1..2 |-> IF dec[i] = kind /\ node[i] THEN <<names[i]>> ELSE <<>>])
    IN Grammar(AstTypes(pick(inf, "interface", InferredAs), pick(inf, "union", InferredAs)),
               AstTypes(pick(dec, "interface", DeclaredAs), pick(dec, "union", DeclaredAs)),
               nodes("union"), nodes("interface"), c.rx \o c.ry, c.dt)

KindGrammars ==
    {KindGrammar(c) :
        c \in [ix : Kinds, iy : Kinds, dx : Kinds, dy : Kinds,
               nx : BOOLEAN, ny : BOOLEAN,
               rx : RuleLists("X", PlainRules, MaxRules, 0),
               ry : RuleLists("Y", PlainRules, MaxRules, MaxRules),
               dt : {<<>>, <<Rule(2 * MaxRules + 1, "X", <<>>, FALSE)>>}]}

\* alternatives handed to checkAlternativesConsistencyHelper on its own
HelperAlternatives ==
    {PT(<<"A">>, a, r) : a \in BOOLEAN, r \in BOOLEAN}
    \cup {PT(t, b, b) : t \in {<<"A", "B">>, <<"B", "A">>}, b \in BOOLEAN}

(***************************************************************************)
(* States and actions                                                      *)
(***************************************************************************)
NoGrammar == Grammar(AstTypes(<<>>, <<>>), AstTypes(<<>>, <<>>), <<>>, <<>>, <<>>, <<>>)

TypesIdle ==
    /\ grammar = NoGrammar /\ diagnostics = <<>> /\ resources = <<>> /\ pcT = "off"
AltIdle ==
    /\ found = <<>> /\ expected = <<>> /\ errorsInfo = <<>> /\ pcA = "off"
RegistryIdle ==
    /\ allTypes = <<>> /\ subtypes = {} /\ validationChecks = <<>> /\ registered = <<>>
WrapperIdle ==
    /\ checks = <<>> /\ cur = 0 /\ wstate = "off" /\ cstate = "off" /\ ip = 0
    /\ thrown = [kind |-> "none", message |-> "", stack |-> FALSE, value |-> ""]
    /\ accepted = <<>> /\ log = <<>> /\ outcome = <<>>

InitTypes(grammars) ==
    /\ grammar \in grammars
    /\ diagnostics = <<>> /\ resources = <<>> /\ pcT = "idle"
    /\ AltIdle /\ RegistryIdle /\ WrapperIdle

\* validateTypesConsistency(grammar, accept)
ValidateTypesConsistency ==
    /\ pcT = "idle"
    /\ diagnostics' = validateTypesConsistency(grammar)
    /\ pcT' = "validated"
    /\ UNCHANGED <<grammar, resources, altVars, regVars, wrapVars>>

\* collectValidationResources(grammar)
CollectValidationResources ==
    /\ pcT = "idle"
    /\ resources' = collectValidationResources(grammar)
    /\ pcT' = "collected"
    /\ UNCHANGED <<grammar, diagnostics, altVars, regVars, wrapVars>>

NextTypes == ValidateTypesConsistency \/ CollectValidationResources

SpecUnion == InitTypes(UnionGrammars) /\ [][NextTypes]_vars
SpecProps == InitTypes(PropertyGrammars) /\ [][NextTypes]_vars
SpecSuper == InitTypes(SuperTypeGrammars) /\ [][NextTypes]_vars
SpecKinds == InitTypes(KindGrammars) /\ [][NextTypes]_vars
\* unions and interfaces together: every grammar in which X has the same kind on both sides
InitAgree ==
    \/ InitTypes(UnionGrammars)
    \/ InitTypes(PropertyGrammars)
    \/ InitTypes(SuperTypeGrammars)
SpecAgree == InitAgree /\ [][NextTypes]_vars

InitAlt ==
    /\ found \in DistinctSeqs(HelperAlternatives, MaxAlts)
    /\ expected \in DistinctSeqs(HelperAlternatives, MaxAlts)
    /\ errorsInfo = <<>> /\ pcA = "idle"
    /\ TypesIdle /\ RegistryIdle /\ WrapperIdle

\* checkAlternativesConsistencyHelper(found, expected)
CheckAlternatives ==
    /\ pcA = "idle"
    /\ errorsInfo' = checkAlternativesConsistencyHelper(found, expected)
    /\ pcA' = "done"
    /\ UNCHANGED <<found, expected, typeVars, regVars, wrapVars>>

NextAlt == CheckAlternatives

SpecAlt == InitAlt /\ [][NextAlt]_vars


(***************************************************************************)
(* Vocabulary of the properties of the type validator                      *)
(***************************************************************************)
GrammarTypeNames == {"X", "Y"}
AllRules == grammar.parserRules \o grammar.datatypeRules
RuleIdsOf(name) == {AllRules[i].id : i \in {j \in DOMAIN AllRules : AllRules[j].type = name}}
RuleById(id) == AllRules[CHOOSE i \in DOMAIN AllRules : AllRules[i].id = id]
NodesOf(name) == typeNameToRules(grammar, name)

Named(list, name) == SelectSeq(list, LAMBDA t : t.name = name)
HasInferred(name) == Len(Named(mergeTypesAndInterfaces(grammar.inferred), name)) > 0
InferredOf(name) == Named(mergeTypesAndInterfaces(grammar.inferred), name)[1]
HasDeclared(name) == Len(Named(mergeTypesAndInterfaces(grammar.declared), name)) > 0
DeclaredOf(name) == Named(mergeTypesAndInterfaces(grammar.declared), name)[1]
\* both descriptions exist and the declaration can be anchored: the name is compared
Compared(name) == HasInferred(name) /\ HasDeclared(name) /\ HasDeclarationNode(grammar, name)

\* the diagnostics anchored to a rule of `name`, to one of its assignments or to its declaration
BelongsTo(d, name) ==
    \/ /\ d.node.kind \in {"ParserRule", "InferredType", "Assignment"}
       /\ d.node.rule \in RuleIdsOf(name)
    \/ /\ d.node.kind = "Type"
       /\ grammar.types[d.node.index] = name
    \/ /\ d.node.kind = "Interface"
       /\ grammar.interfaces[d.node.index] = name
DiagsOf(name) == SelectSeq(diagnostics, LAMBDA d : BelongsTo(d, name))
Count(seq, P(_)) == Len(SelectSeq(seq, P))

AltSet(u) == {<<Range(u[i].types), u[i].array, u[i].reference>> : i \in DOMAIN u}
PropSet(ps) == {<<ps[i].name, AltSet(ps[i].typeAlternatives), ps[i].optional>> : i \in DOMAIN ps}
Agree(a, b) ==
    /\ a.kind = b.kind
    /\ AltSet(a.union) = AltSet(b.union)
    /\ PropSet(a.properties) = PropSet(b.properties)
    /\ Range(a.superTypes) = Range(b.superTypes)

SharesTypeString(u) ==
    \E i, j \in DOMAIN u : i # j /\ typeString(u[i]) = typeString(u[j])

KindMismatch(name) ==
    Compared(name) /\ InferredOf(name).kind # DeclaredOf(name).kind
AnchoredAt(d, node) == d.node = node

\* C5: a name inferred as a union and declared as an interface (or the reverse)
\* gets the shape-kind error once per producing rule node and once on the
\* declaration node, and nothing else; the other names are still checked.
C5_KindMismatch ==
    pcT = "validated" =>
        \A name \in GrammarTypeNames : KindMismatch(name) =>
            LET ds == DiagsOf(name)
                nodes == NodesOf(name)
            IN /\ Len(ds) = Len(nodes) + 1
               /\ \A i \in DOMAIN ds :
                    ds[i].message = specificError(name) /\ ds[i].severity = "error"
               /\ \A i \in DOMAIN nodes :
                    Count(ds, LAMBDA d : AnchoredAt(d, RuleAnchor(nodes[i]))) = 1
               /\ Count(ds, LAMBDA d : AnchoredAt(d, DeclarationNode(grammar, name))) = 1
               /\ \A other \in GrammarTypeNames \ {name} :
                    (/\ Compared(other)
                     /\ InferredOf(other).kind = DeclaredOf(other).kind
                     /\ Len(NodesOf(other)) > 0)
                        => Len(DiagsOf(other)) > 0

C5_Witness ==
    /\ pcT = "validated"
    /\ KindMismatch("X") /\ Len(NodesOf("X")) = 1 /\ Len(DiagsOf("X")) = 2
    /\ Compared("Y") /\ isType(InferredOf("Y")) /\ isType(DeclaredOf("Y"))
    /\ Len(DiagsOf("Y")) > 0

\* C7: collectValidationResources returns one record for every name of the
\* inferred list and for every name of the declared list that has a declaration
\* node; each record carries what the lists hold for its name.
C7_RecordForEveryName ==
    pcT = "collected" =>
        \A name \in GrammarTypeNames :
            /\ HasInferred(name) =>
                /\ MapHas(resources, name)
                /\ MapGet(resources, name).hasInferred
                /\ MapGet(resources, name).inferred = InferredOf(name)
                /\ MapGet(resources, name).nodes = NodesOf(name)
            /\ (HasDeclared(name) /\ HasDeclarationNode(grammar, name)) =>
                /\ MapHas(resources, name)
                /\ MapGet(resources, name).hasDeclared
                /\ MapGet(resources, name).declared = DeclaredOf(name)
                /\ MapGet(resources, name).node = DeclarationNode(grammar, name)
            /\ MapHas(resources, name) =>
                HasInferred(name) \/ (HasDeclared(name) /\ HasDeclarationNode(grammar, name))

\* what the code does keep: exactly the declared names that have a declaration node
RecordForEveryAnchoredDeclaration ==
    pcT = "collected" =>
        \A name \in GrammarTypeNames :
            /\ MapHas(resources, name) <=> (HasDeclared(name) /\ HasDeclarationNode(grammar, name))
            /\ MapHas(resources, name) =>
                /\ MapGet(resources, name).declared = DeclaredOf(name)
                /\ MapGet(resources, name).hasInferred = HasInferred(name)
                /\ HasInferred(name) => MapGet(resources, name).inferred = InferredOf(name)

(***************************************************************************)
(* Properties of one interface X (SpecProps, SpecSuper)                    *)
(***************************************************************************)
InferredProperties == InferredOf("X").properties
DeclaredProperties == DeclaredOf("X").properties
HasProperty(props, name) == \E i \in DOMAIN props : props[i].name = name
Mentions(d, token) == token \in Range(d.message)
DiagsMentioning(name) == SelectSeq(diagnostics, LAMBDA d : Mentions(d, name))
AssignmentExists(name) ==
    \E i \in DOMAIN NodesOf("X") : name \in Range(NodesOf("X")[i].assignments)
\* d is anchored to an assignment whose feature is `name`
OnAssignmentOf(d, name) ==
    /\ d.node.kind = "Assignment"
    /\ d.property = "feature"
    /\ RuleById(d.node.rule).assignments[d.node.index] = name
OnRuleNode(d) == d.node.kind \in {"ParserRule", "InferredType"} /\ d.property = "name"

\* p is on both sides with one alternative each, the same base types, no reference
SameBaseProperty(p) ==
    /\ HasProperty(InferredProperties, p) /\ HasProperty(DeclaredProperties, p)
    /\ LET f == FindByName(InferredProperties, p).typeAlternatives
           e == FindByName(DeclaredProperties, p).typeAlternatives
       IN /\ Len(f) = 1 /\ Len(e) = 1
          /\ Range(f[1].types) = Range(e[1].types)
          /\ ~f[1].reference /\ ~e[1].reference
InferredArray(p) == FindByName(InferredProperties, p).typeAlternatives[1].array
DeclaredArray(p) == FindByName(DeclaredProperties, p).typeAlternatives[1].array

\* the first assignment of `name` in the producing rules of X
FirstAssignmentOf(name) ==
    LET nodes == assignmentNodes(NodesOf("X"))
    IN AssignmentAnchor(nodes[FirstIndex([i \in DOMAIN nodes |-> nodes[i].feature], name)])

\* C6 as stated: inferred array against declared non-array gives exactly one
\* diagnostic for p, saying "has to be an array"; the reverse gives "can't be an array".
C6_ArrayMessagesAsStated ==
    pcT = "validated" =>
        \A p \in PropertyNames : SameBaseProperty(p) =>
            /\ (InferredArray(p) /\ ~DeclaredArray(p)) =>
                /\ Len(DiagsMentioning(p)) = 1
                /\ Mentions(DiagsMentioning(p)[1], "has to be an array")
            /\ (~InferredArray(p) /\ DeclaredArray(p)) =>
                /\ Len(DiagsMentioning(p)) = 1
                /\ Mentions(DiagsMentioning(p)[1], "can't be an array")

\* C6 amended: when a producing rule assigns p, inferred array against declared
\* non-array gives exactly one diagnostic for p, on p's first assignment, saying
\* "can't be an array"; the reverse gives "has to be an array"; when no producing
\* rule assigns p, nothing is reported for p.
C6_ArrayMessages ==
    pcT = "validated" =>
        \A p \in PropertyNames :
            (SameBaseProperty(p) /\ InferredArray(p) # DeclaredArray(p)) =>
                IF AssignmentExists(p)
                THEN /\ Len(DiagsMentioning(p)) = 1
                     /\ OnAssignmentOf(DiagsMentioning(p)[1], p)
                     /\ DiagsMentioning(p)[1].node = FirstAssignmentOf(p)
                     /\ InferredArray(p) =>
                            /\ Mentions(DiagsMentioning(p)[1], "can't be an array")
                            /\ ~Mentions(DiagsMentioning(p)[1], "has to be an array")
                     /\ DeclaredArray(p) =>
                            /\ Mentions(DiagsMentioning(p)[1], "has to be an array")
                            /\ ~Mentions(DiagsMentioning(p)[1], "can't be an array")
                ELSE Len(DiagsMentioning(p)) = 0

C6_Witness ==
    /\ pcT = "validated"
    /\ \E p \in PropertyNames :
        /\ SameBaseProperty(p) /\ InferredArray(p) /\ ~DeclaredArray(p)
        /\ AssignmentExists(p)
        /\ Len(DiagsMentioning(p)) = 1
        /\ Mentions(DiagsMentioning(p)[1], "can't be an array")
    /\ \E p \in PropertyNames :
        /\ SameBaseProperty(p) /\ ~InferredArray(p) /\ DeclaredArray(p)
        /\ AssignmentExists(p)
        /\ Mentions(DiagsMentioning(p)[1], "has to be an array")

IsExpected(d, q) == d.message = ExpectedMessage(q) \o RuleSuffix("X")
IsNotExpected(d, r) == d.message = NotExpectedMessage(r)
\* the 'expected' diagnostics of q: one on every producing rule node, none elsewhere
ExpectedOnEveryRuleNode(q) ==
    /\ \A i \in DOMAIN NodesOf("X") :
        Count(diagnostics, LAMBDA d : IsExpected(d, q)
                                        /\ AnchoredAt(d, RuleAnchor(NodesOf("X")[i]))
                                        /\ d.property = "name") = 1
    /\ Count(diagnostics, LAMBDA d : IsExpected(d, q)) = Len(NodesOf("X"))
    /\ Count(diagnostics, LAMBDA d : Mentions(d, q) /\ d.node.kind = "Assignment") = 0
NoDifferenceReported(n) ==
    Count(diagnostics, LAMBDA d : IsExpected(d, n) \/ IsNotExpected(d, n)) = 0

\* C8 as stated: every declared-only property q is reported 'expected' on the
\* producing rule nodes, every inferred-only property r is reported 'not
\* expected' on the assignment of r, and no property on both sides is reported.
C8_PropertyDifferenceAsStated ==
    pcT = "validated" =>
        \A n \in PropertyNames :
            /\ (HasProperty(DeclaredProperties, n) /\ ~HasProperty(InferredProperties, n))
                    => ExpectedOnEveryRuleNode(n)
            /\ (HasProperty(InferredProperties, n) /\ ~HasProperty(DeclaredProperties, n))
                    => \E i \in DOMAIN diagnostics :
                            IsNotExpected(diagnostics[i], n) /\ OnAssignmentOf(diagnostics[i], n)
            /\ (HasProperty(InferredProperties, n) /\ HasProperty(DeclaredProperties, n))
                    => NoDifferenceReported(n)

\* C8 amended: an inferred-only property r is reported 'not expected' exactly
\* once, on the first assignment of r in the producing rules, when there is such
\* an assignment, and not at all when there is none; the rest as stated, with
\* one 'expected' diagnostic per producing rule node.
C8_PropertyDifference ==
    pcT = "validated" =>
        \A n \in PropertyNames :
            /\ (HasProperty(DeclaredProperties, n) /\ ~HasProperty(InferredProperties, n))
                    => ExpectedOnEveryRuleNode(n)
            /\ (HasProperty(InferredProperties, n) /\ ~HasProperty(DeclaredProperties, n))
                    => IF AssignmentExists(n)
                       THEN /\ Len(DiagsMentioning(n)) = 1
                            /\ IsNotExpected(DiagsMentioning(n)[1], n)
                            /\ OnAssignmentOf(DiagsMentioning(n)[1], n)
                            /\ DiagsMentioning(n)[1].node
                                = AssignmentAnchor(
                                    assignmentNodes(NodesOf("X"))[
                                        FirstIndex([i \in DOMAIN assignmentNodes(NodesOf("X")) |->
                                                      assignmentNodes(NodesOf("X"))[i].feature], n)])
                       ELSE Len(DiagsMentioning(n)) = 0
            /\ (HasProperty(InferredProperties, n) /\ HasProperty(DeclaredProperties, n))
                    => NoDifferenceReported(n)

C8_Witness ==
    /\ pcT = "validated"
    /\ HasProperty(DeclaredProperties, "q") /\ ~HasProperty(InferredProperties, "q")
    /\ HasProperty(InferredProperties, "p") /\ ~HasProperty(DeclaredProperties, "p")
    /\ Len(NodesOf("X")) = 2
    /\ AssignmentExists("p")
    /\ Count(diagnostics, LAMBDA d : IsExpected(d, "q")) = 2
    /\ Count(diagnostics, LAMBDA d : IsNotExpected(d, "p")) = 1

IsSuperTypeError(d, superType, isExtra) ==
    d.message = superTypeError(superType, isExtra) \o RuleSuffix("X")
InferredSuperTypes == Range(InferredOf("X").superTypes)
DeclaredSuperTypes == Range(DeclaredOf("X").superTypes)

\* C9: on every producing rule node the supertype diagnostics are exactly the
\* symmetric difference of the two supertype sets: 'not expected' once for each
\* inferred-only name, 'expected' once for each declared-only name, nothing else;
\* declared {A,B} against inferred {A,C} in one rule gives exactly two.
C9_SuperTypeDifference ==
    pcT = "validated" =>
        LET nodes == NodesOf("X")
            extra == InferredSuperTypes \ DeclaredSuperTypes
            lack == DeclaredSuperTypes \ InferredSuperTypes
        IN /\ \A i \in DOMAIN nodes : \A s \in SuperTypeNames :
                /\ Count(diagnostics, LAMBDA d : IsSuperTypeError(d, s, TRUE)
                                                    /\ AnchoredAt(d, RuleAnchor(nodes[i])))
                    = IF s \in extra THEN 1 ELSE 0
                /\ Count(diagnostics, LAMBDA d : IsSuperTypeError(d, s, FALSE)
                                                    /\ AnchoredAt(d, RuleAnchor(nodes[i])))
                    = IF s \in lack THEN 1 ELSE 0
           /\ Len(diagnostics) = Len(nodes) * (Cardinality(extra) + Cardinality(lack))
           /\ \A i \in DOMAIN diagnostics : OnRuleNode(diagnostics[i])
           /\ (DeclaredSuperTypes = {"A", "B"} /\ InferredSuperTypes = {"A", "C"} /\ Len(nodes) = 1)
                => /\ Len(diagnostics) = 2
                   /\ {diagnostics[i].message : i \in DOMAIN diagnostics}
                        = {superTypeError("B", FALSE) \o RuleSuffix("X"),
                           superTypeError("C", TRUE) \o RuleSuffix("X")}

C9_Witness ==
    /\ pcT = "validated"
    /\ DeclaredSuperTypes = {"A", "B"} /\ InferredSuperTypes = {"A", "C"}
    /\ Len(NodesOf("X")) = 1
    /\ Len(diagnostics) = 2

(***************************************************************************)
(* Properties of the classification of array / reference mismatches        *)
(***************************************************************************)
Conds(f, e) ==
    <<Cond1(f, e), Cond2(f, e), Cond3(f, e), Cond4(f, e), Cond5(f, e), Cond6(f, e)>>
Holding(f, e) == {n \in 1..6 : Conds(f, e)[n]}
\* the alternatives the helper pairs up: same canonical type string, different flags
Mismatched(k) ==
    /\ MapHas(stringToPropertyTypeList(found), k)
    /\ MapHas(stringToPropertyTypeList(expected), k)
    /\ LET f == MapGet(stringToPropertyTypeList(found), k)
           e == MapGet(stringToPropertyTypeList(expected), k)
       IN f.array # e.array \/ f.reference # e.reference
FoundOf(k) == MapGet(stringToPropertyTypeList(found), k)
ExpectedOf(k) == MapGet(stringToPropertyTypeList(expected), k)
TypeStrings == {typeString(a) : a \in HelperAlternatives}
ErrorsOf(k) == SelectSeq(errorsInfo, LAMBDA x : x.typeString = k)

\* C10 as stated: the six conditions are mutually exclusive.
C10_MutuallyExclusive ==
    pcA = "done" =>
        \A k \in TypeStrings : Mismatched(k) =>
            Cardinality(Holding(FoundOf(k), ExpectedOf(k))) <= 1

\* C10 amended: a mismatched pair gets exactly one of the six messages, never
\* the empty one: the message of the first condition that holds, in the order
\* the code tests them (several can hold together); when array and reference
\* differ in the same direction that is the compound message.
C10_Classification ==
    pcA = "done" =>
        \A k \in TypeStrings : Mismatched(k) =>
            LET f == FoundOf(k)
                e == ExpectedOf(k)
                es == ErrorsOf(k)
            IN /\ Len(es) = 1
               /\ es[1].errorMessage # ""
               /\ Holding(f, e) # {}
               /\ \E n \in Holding(f, e) :
                    /\ \A m \in Holding(f, e) : n <= m
                    /\ es[1].errorMessage = Messages[n]
               /\ (f.array /\ ~e.array /\ f.reference /\ ~e.reference)
                    => es[1].errorMessage = "can't be an array and a reference"
               /\ (~f.array /\ e.array /\ ~f.reference /\ e.reference)
                    => es[1].errorMessage = "has to be an array and a reference"

C10_Witness ==
    /\ pcA = "done"
    /\ \E k \in TypeStrings :
        /\ Mismatched(k)
        /\ Cardinality(Holding(FoundOf(k), ExpectedOf(k))) = 3
        /\ ErrorsOf(k)[1].errorMessage = "has to be an array and a reference"


(***************************************************************************)
(* ValidationRegistry                                                      *)
(***************************************************************************)
RegistryTypeNames == {"A", "B", "C"}
CheckNames == {"c1", "c2"}

\* reflection.isSubtype(subtype, supertype)
isSubtype(subtype, supertype) == <<subtype, supertype>> \in subtypes

\* The reflection of a language: the type names it lists and a subtype relation
\* that is a partial order on them; any name is a subtype of itself.
StrictPairs(known) == {p \in known \X known : p[1] # p[2]}
Reflexive == {<<n, n>> : n \in RegistryTypeNames}
IsPartialOrder(R) ==
    /\ \A p \in R : p[1] # p[2] => <<p[2], p[1]>> \notin R
    /\ \A p, q \in R : p[2] = q[1] => <<p[1], q[2]>> \in R
Reflections ==
    {[allTypes |-> SortAtoms(c.known), subtypes |-> c.strict \cup Reflexive] :
        c \in {c \in [known : SUBSET RegistryTypeNames,
                      strict : SUBSET StrictPairs(RegistryTypeNames)] :
                    /\ c.strict \subseteq StrictPairs(c.known)
                    /\ IsPartialOrder(c.strict \cup Reflexive)}}

\* MultiMap.get: the values filed under key, or none
getChecksOf(map, type) == IF MapHas(map, type) THEN MapGet(map, type) ELSE <<>>
\* MultiMap.add
MultiMapAdd(map, key, value) == MapSet(map, key, Append(getChecksOf(map, key), value))

\* getChecks(type)
getChecks(type) == getChecksOf(validationChecks, type)

\* wrapValidationException(check, thisObj): a new closure around check
wrapValidationException(check, n) == [check |-> check, closure |-> n]

RECURSIVE addToSubtypes(_, _, _, _)
addToSubtypes(map, types, type, check) ==
    IF Len(types) = 0 THEN map
    ELSE LET n == Len(types)
             rest == addToSubtypes(map, SubSeq(types, 1, n - 1), type, check)
         IN IF isSubtype(types[n], type) THEN MultiMapAdd(rest, types[n], check) ELSE rest

doRegisterExactType(map, type, check) ==
    IF type \in Range(allTypes) THEN MultiMapAdd(map, type, check) ELSE map

\* doRegister(type, check) on the MultiMap
doRegister(map, type, check) == addToSubtypes(map, allTypes, type, check)

\* the registry after register(): st = [map, history]
RegisterOne(st, type, check) ==
    LET wrapper == wrapValidationException(check, Len(st.history) + 1)
    IN [map |-> doRegister(st.map, type, wrapper),
        history |-> Append(st.history, [type |-> type, check |-> check, wrapper |-> wrapper])]

RECURSIVE RegisterAll(_, _, _)
RegisterAll(st, type, chs) ==
    IF Len(chs) = 0 THEN st
    ELSE RegisterOne(RegisterAll(st, type, SubSeq(chs, 1, Len(chs) - 1)), type, chs[Len(chs)])

\* lines 51-59: one entry of the checks record
RegisterEntry(st, entry) ==
    IF entry.value.kind = "array" THEN RegisterAll(st, entry.type, entry.value.checks)
    ELSE IF entry.value.kind = "check" THEN RegisterOne(st, entry.type, entry.value.checks[1])
    ELSE st

RECURSIVE register(_, _)
register(st, checksRecord) ==
    IF Len(checksRecord) = 0 THEN st
    ELSE LET n == Len(checksRecord)
         IN RegisterEntry(register(st, SubSeq(checksRecord, 1, n - 1)), checksRecord[n])

\* the values of a checks record: undefined, one check, an array of checks
RecordValues ==
    {[kind |-> "undefined", checks |-> <<>>]}
    \cup {[kind |-> "check", checks |-> <<c>>] : c \in CheckNames}
    \cup {[kind |-> "array", checks |-> cs] : cs \in {<<>>, <<"c1", "c2">>, <<"c1", "c1">>}}
\* the records register() is called with: one or two keys, in insertion order
ChecksRecords ==
    {<<[type |-> t, value |-> v]>> : t \in RegistryTypeNames, v \in RecordValues}
    \cup {<<[type |-> t[1], value |-> v[1]], [type |-> t[2], value |-> v[2]]>> :
            t \in StrictPairs(RegistryTypeNames), v \in RecordValues \X RecordValues}
Registrations(checksRecord) ==
    Len(Flatten([i \in DOMAIN checksRecord |-> checksRecord[i].value.checks]))

InitRegistry ==
    /\ \E r \in Reflections : allTypes = r.allTypes /\ subtypes = r.subtypes
    /\ validationChecks = <<>> /\ registered = <<>>
    /\ TypesIdle /\ AltIdle /\ WrapperIdle

\* register(checksRecord)
Register ==
    \E checksRecord \in ChecksRecords :
        /\ Len(registered) + Registrations(checksRecord) <= MaxRegistrations
        /\ LET st == register([map |-> validationChecks, history |-> registered], checksRecord)
           IN validationChecks' = st.map /\ registered' = st.history
        /\ UNCHANGED <<allTypes, subtypes, typeVars, altVars, wrapVars>>

NextRegistry == Register

SpecRegistry == InitRegistry /\ [][NextRegistry]_vars

\* the wrappers registered under a supertype of T, in registration order
InheritedBy(T) ==
    LET rs == SelectSeq(registered, LAMBDA r : isSubtype(T, r.type))
    IN [i \in DOMAIN rs |-> rs[i].wrapper]

\* C1 as stated: for every name T, getChecks(T) is exactly the wrappers of the
\* checks registered under a name T is a subtype of (T itself included), in
\* registration order, one entry per registration.
C1_InheritedChecksAsStated ==
    \A T \in RegistryTypeNames : getChecks(T) = InheritedBy(T)

\* C1 amended: that holds for every name T that getAllTypes() lists; a name it
\* does not list has no checks, whatever was registered under it.
C1_InheritedChecks ==
    \A T \in RegistryTypeNames :
        getChecks(T) = IF T \in Range(allTypes) THEN InheritedBy(T) ELSE <<>>

C1_Witness ==
    /\ isSubtype("A", "B") /\ isSubtype("B", "C") /\ ~isSubtype("C", "A")
    /\ Len(registered) = 3
    /\ registered[1].type = "C" /\ registered[2].type = "A" /\ registered[3].type = "C"
    /\ registered[1].check = registered[3].check
    /\ Len(getChecks("A")) = 3
    /\ Len(getChecks("B")) = 2
    /\ getChecks("B")[1] # getChecks("B")[2]
    /\ getChecks("B")[1].check = getChecks("B")[2].check


(***************************************************************************)
(* The wrapped checks of one node, invoked one after the other             *)
(***************************************************************************)
Node == "node"

\* a thrown value: an Error object (message, stack) or a plain string (value)
Err(kind, message, stack, value) ==
    [kind |-> kind, message |-> message, stack |-> stack, value |-> value]
NoError == Err("none", "", FALSE, "")
\* the cooperative-cancellation signal (promise-util.ts)
OperationCancelled == Err("OperationCancelled", "", FALSE, "")
isOperationCancelled(err) == err = OperationCancelled

\* what a check does when it ends
Ends == {"return", "throwError", "throwErrorWithoutStack", "throwString", "throwCancelled"}
Thrown(end) ==
    IF end = "throwError" THEN Err("Error", "boom", TRUE, "")
    ELSE IF end = "throwErrorWithoutStack" THEN Err("Error", "boom", FALSE, "")
    ELSE IF end = "throwString" THEN Err("string", "", FALSE, "oops")
    ELSE IF end = "throwCancelled" THEN OperationCancelled
    ELSE NoError

\* a check: it reports ("accept") and suspends ("await") some times, then ends
Scripts ==
    {[steps |-> st, end |-> e] :
        st \in UNION {[1..k -> {"accept", "await"}] : k \in 0..MaxSteps}, e \in Ends}

\* err instanceof Error ? err.message : String(err)
ErrorText(err) == IF err.kind = "Error" THEN err.message ELSE err.value

\* accept(severity, message, { node }), by: the wrapped check that called it
Accepted(severity, message, node, by) ==
    [severity |-> severity, message |-> message, node |-> node, by |-> by]

ValidationError(err, by) ==
    Accepted("error", <<"An error occurred during validation: ", ErrorText(err)>>, Node, by)

catchRethrowsAll(err) == "rethrow"

\* lines 66-76: what the catch block does with err
catch(err) == IF isOperationCancelled(err) THEN "rethrow" ELSE "report"

awaitsNothing(state) == TRUE

\* line 65: `await` lets the wrapper go on once the check's promise has settled
awaitSettled(state) == state \in {"returned", "threw"}

Settled(status, err) == [status |-> status, error |-> err]

InitWrapper ==
    /\ checks \in [1..2 -> Scripts]
    /\ cur = 1 /\ wstate = "idle" /\ cstate = "idle" /\ ip = 1
    /\ thrown = NoError /\ accepted = <<>> /\ log = <<>> /\ outcome = <<>>
    /\ TypesIdle /\ AltIdle /\ RegistryIdle

Running == cur \in DOMAIN checks

\* the validation loop calls the wrapper, which calls the check
Invoke ==
    /\ Running /\ wstate = "idle"
    /\ wstate' = "awaiting" /\ cstate' = "running" /\ ip' = 1
    /\ UNCHANGED <<checks, cur, thrown, accepted, log, outcome, typeVars, altVars, regVars>>

\* the check reports a diagnostic of its own
CheckAccepts ==
    /\ Running /\ cstate = "running" /\ ip <= Len(checks[cur].steps)
    /\ checks[cur].steps[ip] = "accept"
    /\ accepted' = Append(accepted, Accepted("warning", <<"reported by the check">>, Node, cur))
    /\ ip' = ip + 1
    /\ UNCHANGED <<checks, cur, wstate, cstate, thrown, log, outcome, typeVars, altVars, regVars>>

\* the check suspends
CheckSuspends ==
    /\ Running /\ cstate = "running" /\ ip <= Len(checks[cur].steps)
    /\ checks[cur].steps[ip] = "await"
    /\ cstate' = "suspended"
    /\ ip' = ip + 1
    /\ UNCHANGED <<checks, cur, wstate, thrown, accepted, log, outcome, typeVars, altVars, regVars>>

\* the scheduler resumes the check
CheckResumes ==
    /\ Running /\ cstate = "suspended"
    /\ cstate' = "running"
    /\ UNCHANGED <<checks, cur, wstate, ip, thrown, accepted, log, outcome, typeVars, altVars, regVars>>

\* the check returns or throws
CheckEnds ==
    /\ Running /\ cstate = "running" /\ ip > Len(checks[cur].steps)
    /\ IF checks[cur].end = "return"
       THEN cstate' = "returned" /\ thrown' = NoError
       ELSE cstate' = "threw" /\ thrown' = Thrown(checks[cur].end)
    /\ UNCHANGED <<checks, cur, wstate, ip, accepted, log, outcome, typeVars, altVars, regVars>>

\* lines 64-76: the wrapper goes on after `await check.call(...)`
WrapperContinues ==
    /\ Running /\ wstate = "awaiting" /\ awaitSettled(cstate)
    /\ IF cstate = "threw"
       THEN IF catch(thrown) = "rethrow"
            THEN /\ wstate' = "rejected"
                 /\ UNCHANGED <<accepted, log>>
            ELSE /\ log' = log \o <<"An error occurred during validation:">>
                            \o (IF thrown.kind = "Error" /\ thrown.stack THEN <<"stack">> ELSE <<>>)
                 /\ accepted' = Append(accepted, ValidationError(thrown, cur))
                 /\ wstate' = "fulfilled"
       ELSE /\ wstate' = "fulfilled"
            /\ UNCHANGED <<accepted, log>>
    /\ UNCHANGED <<checks, cur, cstate, ip, thrown, outcome, typeVars, altVars, regVars>>

\* the validation loop: go to the next check, or unwind when the wrapper threw
LoopContinues ==
    /\ Running /\ wstate \in {"fulfilled", "rejected"}
    /\ outcome' = Append(outcome, Settled(wstate, IF wstate = "rejected" THEN thrown ELSE NoError))
    /\ cur' = IF wstate = "rejected" THEN Len(checks) + 1 ELSE cur + 1
    /\ wstate' = "idle" /\ cstate' = "idle" /\ ip' = 1 /\ thrown' = NoError
    /\ UNCHANGED <<checks, accepted, log, typeVars, altVars, regVars>>

NextWrapper ==
    \/ Invoke \/ CheckAccepts \/ CheckSuspends \/ CheckResumes \/ CheckEnds
    \/ WrapperContinues \/ LoopContinues

SpecWrapper == InitWrapper /\ [][NextWrapper]_vars

(***************************************************************************)
(* Properties of the wrapper                                               *)
(***************************************************************************)
\* wrapped check i has settled: the loop is past it, or its wrapper just settled
HasSettled(i) == i <= Len(outcome) \/ (i = cur /\ wstate \in {"fulfilled", "rejected"})
SettledAs(i) ==
    IF i <= Len(outcome) THEN outcome[i]
    ELSE Settled(wstate, IF wstate = "rejected" THEN thrown ELSE NoError)
WasInvoked(i) == i <= Len(outcome) \/ (i = cur /\ wstate # "idle")
Fails(i) == checks[i].end \in {"throwError", "throwErrorWithoutStack", "throwString"}
Cancels(i) == checks[i].end = "throwCancelled"
OwnReports(i) == Len(SelectSeq(checks[i].steps, LAMBDA st : st = "accept"))
IsValidationError(a) ==
    /\ Len(a.message) > 0
    /\ a.message[1] = "An error occurred during validation: "
ValidationErrorsOf(i) == SelectSeq(accepted, LAMBDA a : a.by = i /\ IsValidationError(a))
ReportsOf(i) == SelectSeq(accepted, LAMBDA a : a.by = i /\ ~IsValidationError(a))

\* C2: the wrapper of a check that fails with anything but the cancellation
\* signal completes normally, having reported exactly one 'An error occurred
\* during validation: <message>' error on the node; what the check reported
\* before is kept, and the next check of the node still runs.
C2_FailureIsolated ==
    \A i \in DOMAIN checks : (Fails(i) /\ HasSettled(i)) =>
        /\ SettledAs(i).status = "fulfilled"
        /\ SettledAs(i).error = NoError
        /\ Len(ValidationErrorsOf(i)) = 1
        /\ ValidationErrorsOf(i)[1] =
                Accepted("error", <<"An error occurred during validation: ",
                                    IF checks[i].end = "throwString" THEN "oops" ELSE "boom">>,
                         Node, i)
        /\ Len(ReportsOf(i)) = OwnReports(i)
        /\ (i = 1 /\ ~Running) =>
                /\ Len(outcome) = 2
                /\ Len(ReportsOf(2)) = OwnReports(2)

C2_Witness ==
    /\ ~Running
    /\ checks[1].end = "throwString" /\ checks[1].steps = <<"accept", "await">>
    /\ checks[2].end = "return" /\ checks[2].steps = <<"accept", "accept">>
    /\ Len(accepted) = 4
    /\ accepted[2].message = <<"An error occurred during validation: ", "oops">>
    /\ outcome[1].status = "fulfilled" /\ outcome[2].status = "fulfilled"

\* C3: the wrapper of a check that raises the cancellation signal, before or
\* after a suspension, re-raises that signal and reports no 'An error occurred
\* during validation'; no wrapper settles before its check has ended.
C3_CancellationPropagates ==
    /\ \A i \in DOMAIN checks : (Cancels(i) /\ HasSettled(i)) =>
        /\ SettledAs(i).status = "rejected"
        /\ SettledAs(i).error = OperationCancelled
        /\ Len(ValidationErrorsOf(i)) = 0
        /\ Len(ReportsOf(i)) = OwnReports(i)
    /\ wstate \in {"fulfilled", "rejected"} => cstate \in {"returned", "threw"}
    /\ \A i \in DOMAIN checks : (Cancels(i) /\ WasInvoked(i) /\ ~HasSettled(i)) =>
            Len(ValidationErrorsOf(i)) = 0

C3_Witness ==
    /\ Len(outcome) = 2
    /\ checks[1].end = "return"
    /\ checks[2].end = "throwCancelled" /\ checks[2].steps = <<"await", "accept">>
    /\ outcome[2] = Settled("rejected", OperationCancelled)
    /\ Len(ValidationErrorsOf(2)) = 0


====
